---- MODULE Spec2Model ----
(***************************************************************************)
(* aria-mark: the document <-> URL-token codec (src/shared/compression.ts) *)
(* and the editor that publishes the token in the URL fragment             *)
(* (the Editor component).                                                 *)
(*                                                                         *)
(* Strings are sequences of UTF-16 code units (as in JavaScript), byte     *)
(* arrays are sequences of 0..255.  JavaScript values are records          *)
(*   [t |-> type, b |-> boolean, s |-> code units, k |-> members]          *)
(* so that a value of any JSON type can flow where the code lets it flow.  *)
(***************************************************************************)
EXTENDS Integers, Sequences, FiniteSets, TLC

(***************************************************************************)
(* Small helpers                                                           *)
(***************************************************************************)
Tail2(s, i) == SubSeq(s, i, Len(s))

Ok(v) == [ok |-> TRUE, v |-> v]

Throw == [ok |-> FALSE, v |-> <<>>]

\* try { result } catch { fallback }
TryCatch(result, fallback) == IF result.ok THEN result.v ELSE fallback

(***************************************************************************)
(* base64: btoa / Buffer.toString('base64') and atob / Buffer.from(_, 'base64') *)
(***************************************************************************)
B64Char(i) ==
    IF i < 26 THEN 65 + i
    ELSE IF i < 52 THEN 97 + (i - 26)
    ELSE IF i < 62 THEN 48 + (i - 52)
    ELSE IF i = 62 THEN 43 ELSE 47

\* value of a code unit in the standard alphabet, or -1
B64Val(c) ==
    IF c >= 65 /\ c <= 90 THEN c - 65
    ELSE IF c >= 97 /\ c <= 122 THEN c - 97 + 26
    ELSE IF c >= 48 /\ c <= 57 THEN c - 48 + 52
    ELSE IF c = 43 THEN 62
    ELSE IF c = 47 THEN 63
    ELSE -1

\* Node's decoding table also accepts the URL-safe '-' and '_'
NodeB64Val(c) ==
    IF c = 45 THEN 62 ELSE IF c = 95 THEN 63 ELSE B64Val(c)

RECURSIVE Base64Groups(_)
Base64Groups(b) ==
    IF Len(b) = 0 THEN <<>>
    ELSE IF Len(b) = 1 THEN
        <<B64Char(b[1] \div 4), B64Char((b[1] % 4) * 16), 61, 61>>
    ELSE IF Len(b) = 2 THEN
        <<B64Char(b[1] \div 4), B64Char((b[1] % 4) * 16 + b[2] \div 16),
          B64Char((b[2] % 16) * 4), 61>>
    ELSE
        <<B64Char(b[1] \div 4), B64Char((b[1] % 4) * 16 + b[2] \div 16),
          B64Char((b[2] % 16) * 4 + b[3] \div 64), B64Char(b[3] % 64)>>
        \o Base64Groups(Tail2(b, 4))

\* compressed.toString('base64')
BufferToBase64(bytes) == Base64Groups(bytes)

\* btoa(binaryString): InvalidCharacterError on a code unit above 0xFF
Btoa(binaryString) ==
    IF \E i \in 1..Len(binaryString) : binaryString[i] > 255 THEN Throw
    ELSE Ok(Base64Groups(binaryString))

\* the bytes of a sequence of 6-bit values; a trailing group of two or three
\* values yields one or two bytes, a trailing single value yields none
RECURSIVE SextetsToBytes(_)
SextetsToBytes(v) ==
    IF Len(v) < 2 THEN <<>>
    ELSE IF Len(v) = 2 THEN <<v[1] * 4 + v[2] \div 16>>
    ELSE IF Len(v) = 3 THEN
        <<v[1] * 4 + v[2] \div 16, (v[2] % 16) * 16 + v[3] \div 4>>
    ELSE
        <<v[1] * 4 + v[2] \div 16, (v[2] % 16) * 16 + v[3] \div 4,
          (v[3] % 4) * 64 + v[4]>>
        \o SextetsToBytes(Tail2(v, 5))

IsAsciiWhitespace(c) == c \in {9, 10, 12, 13, 32}

\* atob(encoded): the forgiving-base64 decode of the HTML standard
Atob(encoded) ==
    LET stripped == SelectSeq(encoded, LAMBDA c : ~IsAsciiWhitespace(c))
        n        == Len(stripped)
        unpadded ==
            IF n > 0 /\ n % 4 = 0 /\ stripped[n] = 61
            THEN IF stripped[n - 1] = 61 THEN SubSeq(stripped, 1, n - 2)
                 ELSE SubSeq(stripped, 1, n - 1)
            ELSE stripped
    IN  IF Len(unpadded) % 4 = 1 THEN Throw
        ELSE IF \E i \in 1..Len(unpadded) : B64Val(unpadded[i]) < 0 THEN Throw
        ELSE Ok(SextetsToBytes([i \in 1..Len(unpadded) |-> B64Val(unpadded[i])]))

\* Buffer.from(encoded, 'base64'): never throws; characters outside the
\* alphabet are skipped and decoding stops at the first '='
BufferFromBase64(encoded) ==
    LET stops == {i \in 1..Len(encoded) : encoded[i] = 61}
        upto  == IF stops = {} THEN Len(encoded)
                 ELSE (CHOOSE i \in stops : \A j \in stops : i <= j) - 1
        legal == SelectSeq(SubSeq(encoded, 1, upto), LAMBDA c : NodeB64Val(c) >= 0)
    IN  SextetsToBytes([i \in 1..Len(legal) |-> NodeB64Val(legal[i])])

(***************************************************************************)
(* gzip container.  The DEFLATE payload is one stored block: the member is *)
(* header (ID1, ID2), LEN, the data, and a trailer with the data check.    *)
(* LEN and the check are one byte wide here (CRC32 and ISIZE in RFC 1952). *)
(***************************************************************************)
RECURSIVE ByteSum(_)
ByteSum(bytes) ==
    IF bytes = <<>> THEN 0 ELSE (bytes[1] + ByteSum(Tail(bytes))) % 256

GzipHeader == <<31, 139>>

\* zlib.gzipSync(bytes) / CompressionStream('gzip')
Gzip(bytes) ==
    GzipHeader \o <<Len(bytes) % 256>> \o bytes \o <<ByteSum(bytes)>>

\* one member at the front of bytes: its data and what follows the member
GunzipMember(bytes) ==
    IF Len(bytes) < 3 \/ SubSeq(bytes, 1, 2) # GzipHeader THEN Throw
    ELSE LET n == bytes[3] IN
         IF Len(bytes) < n + 4 THEN Throw
         ELSE LET data == SubSeq(bytes, 4, n + 3) IN
              IF bytes[n + 4] # ByteSum(data) THEN Throw
              ELSE Ok([data |-> data, rest |-> Tail2(bytes, n + 5)])

\* zlib.gunzipSync(bytes): further members are decoded and concatenated,
\* trailing bytes that start with a zero byte are padding and ignored
RECURSIVE GunzipSync(_)
GunzipSync(bytes) ==
    LET m == GunzipMember(bytes) IN
    IF ~m.ok THEN Throw
    ELSE IF m.v.rest = <<>> \/ m.v.rest[1] = 0 THEN Ok(m.v.data)
    ELSE LET more == GunzipSync(m.v.rest) IN
         IF ~more.ok THEN Throw ELSE Ok(m.v.data \o more.v)

\* DecompressionStream('gzip'): data after the end of the member is an error
DecompressionStreamGzip(bytes) ==
    LET m == GunzipMember(bytes) IN
    IF ~m.ok \/ m.v.rest # <<>> THEN Throw ELSE Ok(m.v.data)

(***************************************************************************)
(* UTF-8: TextEncoder / Buffer.from(_, 'utf-8') and TextDecoder /          *)
(* Buffer.toString('utf-8')                                                *)
(***************************************************************************)
IsHighSurrogate(c) == c >= 55296 /\ c <= 56319

IsLowSurrogate(c) == c >= 56320 /\ c <= 57343

Utf8Replacement == <<239, 191, 189>>

Utf8OfCodePoint(cp) ==
    IF cp < 128 THEN <<cp>>
    ELSE IF cp < 2048 THEN <<192 + cp \div 64, 128 + (cp % 64)>>
    ELSE IF cp < 65536 THEN
        <<224 + cp \div 4096, 128 + ((cp \div 64) % 64), 128 + (cp % 64)>>
    ELSE <<240 + cp \div 262144, 128 + ((cp \div 4096) % 64),
           128 + ((cp \div 64) % 64), 128 + (cp % 64)>>

\* a surrogate pair is one code point; an unpaired surrogate becomes U+FFFD
RECURSIVE Utf8Encode(_)
Utf8Encode(str) ==
    IF str = <<>> THEN <<>>
    ELSE IF IsHighSurrogate(str[1]) /\ Len(str) >= 2 /\ IsLowSurrogate(str[2]) THEN
        Utf8OfCodePoint(65536 + (str[1] - 55296) * 1024 + (str[2] - 56320))
        \o Utf8Encode(Tail2(str, 3))
    ELSE IF IsHighSurrogate(str[1]) \/ IsLowSurrogate(str[1]) THEN
        Utf8Replacement \o Utf8Encode(Tail(str))
    ELSE Utf8OfCodePoint(str[1]) \o Utf8Encode(Tail(str))

CodeUnitsOf(cp) ==
    IF cp < 65536 THEN <<cp>>
    ELSE <<55296 + (cp - 65536) \div 1024, 56320 + ((cp - 65536) % 1024)>>

\* number of continuation bytes a lead byte announces, -1 for an invalid lead
Utf8Needed(b) ==
    IF b >= 194 /\ b <= 223 THEN 1
    ELSE IF b >= 224 /\ b <= 239 THEN 2
    ELSE IF b >= 240 /\ b <= 244 THEN 3
    ELSE -1

\* the range allowed for continuation byte number k after lead byte b
Utf8Lower(b, k) == IF k = 1 /\ b = 224 THEN 160 ELSE IF k = 1 /\ b = 240 THEN 144 ELSE 128

Utf8Upper(b, k) == IF k = 1 /\ b = 237 THEN 159 ELSE IF k = 1 /\ b = 244 THEN 143 ELSE 191

\* how many well-formed continuation bytes follow the lead byte at i
RECURSIVE Utf8Good(_, _, _)
Utf8Good(bytes, i, k) ==
    IF k > Utf8Needed(bytes[i]) \/ i + k > Len(bytes) THEN k - 1
    ELSE IF bytes[i + k] < Utf8Lower(bytes[i], k) \/ bytes[i + k] > Utf8Upper(bytes[i], k)
    THEN k - 1
    ELSE Utf8Good(bytes, i, k + 1)

Utf8CodePoint(bytes, i, n) ==
    IF n = 1 THEN (bytes[i] - 192) * 64 + (bytes[i + 1] - 128)
    ELSE IF n = 2 THEN
        (bytes[i] - 224) * 4096 + (bytes[i + 1] - 128) * 64 + (bytes[i + 2] - 128)
    ELSE (bytes[i] - 240) * 262144 + (bytes[i + 1] - 128) * 4096
         + (bytes[i + 2] - 128) * 64 + (bytes[i + 3] - 128)

\* the non-fatal decoder: every ill-formed maximal subpart becomes U+FFFD
RECURSIVE Utf8DecodeFrom(_, _)
Utf8DecodeFrom(bytes, i) ==
    IF i > Len(bytes) THEN <<>>
    ELSE IF bytes[i] < 128 THEN <<bytes[i]>> \o Utf8DecodeFrom(bytes, i + 1)
    ELSE IF Utf8Needed(bytes[i]) < 0 THEN <<65533>> \o Utf8DecodeFrom(bytes, i + 1)
    ELSE LET n == Utf8Needed(bytes[i])
             g == Utf8Good(bytes, i, 1)
         IN  IF g = n
             THEN CodeUnitsOf(Utf8CodePoint(bytes, i, n)) \o Utf8DecodeFrom(bytes, i + n + 1)
             ELSE <<65533>> \o Utf8DecodeFrom(bytes, i + g + 1)

\* decompressed.toString('utf-8'): never throws, keeps a byte order mark
BufferToStringUtf8(bytes) == Utf8DecodeFrom(bytes, 1)

\* new TextDecoder().decode(bytes): never throws (fatal is false), and
\* drops a leading byte order mark (ignoreBOM is false)
TextDecoderDecode(bytes) ==
    IF Len(bytes) >= 3 /\ SubSeq(bytes, 1, 3) = <<239, 187, 191>>
    THEN Utf8DecodeFrom(bytes, 4)
    ELSE Utf8DecodeFrom(bytes, 1)

(***************************************************************************)
(* JavaScript values and JSON                                              *)
(***************************************************************************)
JsUndefined == [t |-> "undefined", b |-> FALSE, s |-> <<>>, k |-> <<>>]

JsNull == [t |-> "null", b |-> FALSE, s |-> <<>>, k |-> <<>>]

JsBool(x) == [t |-> "boolean", b |-> x, s |-> <<>>, k |-> <<>>]

\* a number is kept as its JSON lexeme; b says that it is not zero
JsNum(lexeme, nonzero) == [t |-> "number", b |-> nonzero, s |-> lexeme, k |-> <<>>]

JsStr(str) == [t |-> "string", b |-> FALSE, s |-> str, k |-> <<>>]

JsArr(elems) == [t |-> "array", b |-> FALSE, s |-> <<>>, k |-> elems]

\* members is a sequence of [key |-> string, val |-> value]
JsObj(members) == [t |-> "object", b |-> FALSE, s |-> <<>>, k |-> members]

Member(key, val) == [key |-> key, val |-> val]

\* ToBoolean
Truthy(v) ==
    CASE v.t \in {"undefined", "null"} -> FALSE
      [] v.t \in {"boolean", "number"} -> v.b
      [] v.t = "string" -> v.s # <<>>
      [] OTHER -> TRUE

\* typeof v
TypeOf(v) == IF v.t \in {"null", "array", "object"} THEN "object" ELSE v.t

\* a || b
JsOr(a, b) == IF Truthy(a) THEN a ELSE b

\* key in obj, for the values JSON.parse returns
HasProperty(obj, key) ==
    obj.t = "object" /\ \E i \in 1..Len(obj.k) : obj.k[i].key = key

\* obj[key]
GetProperty(obj, key) ==
    IF HasProperty(obj, key)
    THEN obj.k[CHOOSE i \in 1..Len(obj.k) : obj.k[i].key = key].val
    ELSE JsUndefined

HexUpper(n) == IF n < 10 THEN 48 + n ELSE 55 + n

HexDigit(n) == IF n < 10 THEN 48 + n ELSE 87 + n

UnicodeEscape(c) ==
    <<92, 117, HexDigit(c \div 4096), HexDigit((c \div 256) % 16),
      HexDigit((c \div 16) % 16), HexDigit(c % 16)>>

\* JSON.stringify of the code units of a string, without the quotes
RECURSIVE QuoteJSONString(_)
QuoteJSONString(str) ==
    IF str = <<>> THEN <<>>
    ELSE LET c == str[1] IN
      IF IsHighSurrogate(c) /\ Len(str) >= 2 /\ IsLowSurrogate(str[2])
      THEN <<c, str[2]>> \o QuoteJSONString(Tail2(str, 3))
      ELSE (CASE c = 8 -> <<92, 98>>
              [] c = 9 -> <<92, 116>>
              [] c = 10 -> <<92, 110>>
              [] c = 12 -> <<92, 102>>
              [] c = 13 -> <<92, 114>>
              [] c = 34 -> <<92, 34>>
              [] c = 92 -> <<92, 92>>
              [] c < 32 /\ c \notin {8, 9, 10, 12, 13} -> UnicodeEscape(c)
              [] IsHighSurrogate(c) \/ IsLowSurrogate(c) -> UnicodeEscape(c)
              [] OTHER -> <<c>>)
           \o QuoteJSONString(Tail(str))

KNull == <<110, 117, 108, 108>>

KTrue == <<116, 114, 117, 101>>

KFalse == <<102, 97, 108, 115, 101>>

\* JSON.stringify(v)
RECURSIVE JsonStringify(_)
RECURSIVE JsonStringifyAll(_, _)
JsonStringify(v) ==
    CASE v.t = "null" -> KNull
      [] v.t = "boolean" -> IF v.b THEN KTrue ELSE KFalse
      [] v.t = "number" -> v.s
      [] v.t = "string" -> <<34>> \o QuoteJSONString(v.s) \o <<34>>
      [] v.t = "array" -> <<91>> \o JsonStringifyAll(v.k, FALSE) \o <<93>>
      [] v.t = "object" -> <<123>> \o JsonStringifyAll(v.k, TRUE) \o <<125>>

JsonStringifyAll(items, keyed) ==
    IF items = <<>> THEN <<>>
    ELSE (IF keyed
          THEN <<34>> \o QuoteJSONString(items[1].key) \o <<34, 58>>
               \o JsonStringify(items[1].val)
          ELSE JsonStringify(items[1]))
         \o (IF Len(items) > 1 THEN <<44>> ELSE <<>>)
         \o JsonStringifyAll(Tail(items), keyed)

(***************************************************************************)
(* JSON.parse: a recursive-descent parser over the code units.  A parse    *)
(* step returns [ok, v, i]: the value and the index after it.              *)
(***************************************************************************)
ParseFail == [ok |-> FALSE, v |-> JsNull, i |-> 0]

Parsed(v, i) == [ok |-> TRUE, v |-> v, i |-> i]

IsJsonWhitespace(c) == c \in {9, 10, 13, 32}

IsDigit(c) == c >= 48 /\ c <= 57

RECURSIVE SkipWhitespace(_, _)
SkipWhitespace(str, i) ==
    IF i <= Len(str) /\ IsJsonWhitespace(str[i]) THEN SkipWhitespace(str, i + 1) ELSE i

RECURSIVE SkipDigits(_, _)
SkipDigits(str, i) ==
    IF i <= Len(str) /\ IsDigit(str[i]) THEN SkipDigits(str, i + 1) ELSE i

HexVal(c) ==
    IF IsDigit(c) THEN c - 48
    ELSE IF c >= 97 /\ c <= 102 THEN c - 87
    ELSE IF c >= 65 /\ c <= 70 THEN c - 55
    ELSE -1

\* the characters of a string literal whose opening quote is before i
RECURSIVE ParseString(_, _, _)
ParseString(str, i, acc) ==
    IF i > Len(str) THEN ParseFail
    ELSE LET c == str[i] IN
      IF c = 34 THEN Parsed(JsStr(acc), i + 1)
      ELSE IF c < 32 THEN ParseFail
      ELSE IF c # 92 THEN ParseString(str, i + 1, Append(acc, c))
      ELSE IF i + 1 > Len(str) THEN ParseFail
      ELSE LET e == str[i + 1] IN
        IF e \in {34, 92, 47} THEN ParseString(str, i + 2, Append(acc, e))
        ELSE IF e = 98 THEN ParseString(str, i + 2, Append(acc, 8))
        ELSE IF e = 102 THEN ParseString(str, i + 2, Append(acc, 12))
        ELSE IF e = 110 THEN ParseString(str, i + 2, Append(acc, 10))
        ELSE IF e = 114 THEN ParseString(str, i + 2, Append(acc, 13))
        ELSE IF e = 116 THEN ParseString(str, i + 2, Append(acc, 9))
        ELSE IF e = 117 /\ i + 5 <= Len(str)
                /\ \A j \in 2..5 : HexVal(str[i + j]) >= 0
        THEN ParseString(str, i + 6,
                 Append(acc, HexVal(str[i + 2]) * 4096 + HexVal(str[i + 3]) * 256
                             + HexVal(str[i + 4]) * 16 + HexVal(str[i + 5])))
        ELSE ParseFail

\* -? (0 | [1-9][0-9]*) (. [0-9]+)? ([eE] [+-]? [0-9]+)?
ParseNumber(str, i) ==
    LET n     == Len(str)
        i1    == IF str[i] = 45 THEN i + 1 ELSE i
        i2    == IF i1 <= n /\ str[i1] = 48 THEN i1 + 1 ELSE SkipDigits(str, i1)
        f0    == IF i2 <= n /\ str[i2] = 46 THEN i2 + 1 ELSE i2
        i3    == IF f0 > i2 THEN SkipDigits(str, f0) ELSE i2
        hasE  == i3 <= n /\ str[i3] \in {101, 69}
        e0    == IF hasE /\ i3 + 1 <= n /\ str[i3 + 1] \in {43, 45} THEN i3 + 2 ELSE i3 + 1
        i4    == IF hasE THEN SkipDigits(str, e0) ELSE i3
        lexeme == SubSeq(str, i, i4 - 1)
    IN  IF i2 = i1 \/ (f0 > i2 /\ i3 = f0) \/ (hasE /\ i4 = e0) THEN ParseFail
        ELSE Parsed(JsNum(lexeme, \E j \in i1..(i3 - 1) : str[j] \in 49..57), i4)

StartsWithAt(str, i, word) ==
    i + Len(word) - 1 <= Len(str) /\ SubSeq(str, i, i + Len(word) - 1) = word

RECURSIVE ParseValue(_, _)
RECURSIVE ParseElements(_, _, _)
RECURSIVE ParseMembers(_, _, _)
\* the value that starts at i (whitespace already skipped)
ParseValue(str, i) ==
    IF i > Len(str) THEN ParseFail
    ELSE IF str[i] = 123 THEN
        IF StartsWithAt(str, SkipWhitespace(str, i + 1), <<125>>)
        THEN Parsed(JsObj(<<>>), SkipWhitespace(str, i + 1) + 1)
        ELSE ParseMembers(str, SkipWhitespace(str, i + 1), <<>>)
    ELSE IF str[i] = 91 THEN
        IF StartsWithAt(str, SkipWhitespace(str, i + 1), <<93>>)
        THEN Parsed(JsArr(<<>>), SkipWhitespace(str, i + 1) + 1)
        ELSE ParseElements(str, SkipWhitespace(str, i + 1), <<>>)
    ELSE IF str[i] = 34 THEN ParseString(str, i + 1, <<>>)
    ELSE IF StartsWithAt(str, i, KNull) THEN Parsed(JsNull, i + 4)
    ELSE IF StartsWithAt(str, i, KTrue) THEN Parsed(JsBool(TRUE), i + 4)
    ELSE IF StartsWithAt(str, i, KFalse) THEN Parsed(JsBool(FALSE), i + 5)
    ELSE IF str[i] = 45 \/ IsDigit(str[i]) THEN ParseNumber(str, i)
    ELSE ParseFail

\* after the element r, at j: ']' ends the array, ',' brings another element
ParseElementsAfter(str, acc, r, j) ==
    IF ~r.ok \/ j > Len(str) THEN ParseFail
    ELSE IF str[j] = 93 THEN Parsed(JsArr(Append(acc, r.v)), j + 1)
    ELSE IF str[j] = 44
    THEN ParseElements(str, SkipWhitespace(str, j + 1), Append(acc, r.v))
    ELSE ParseFail

ParseElementAt(str, acc, r) ==
    ParseElementsAfter(str, acc, r, IF r.ok THEN SkipWhitespace(str, r.i) ELSE 0)

\* value (, value)* ] with the first value at i
ParseElements(str, i, acc) == ParseElementAt(str, acc, ParseValue(str, i))

\* a repeated key overwrites the property it repeats
SetMember(members, key, val) ==
    IF \E m \in 1..Len(members) : members[m].key = key
    THEN [m \in 1..Len(members) |->
            IF members[m].key = key THEN Member(key, val) ELSE members[m]]
    ELSE Append(members, Member(key, val))

\* after a member, at j: '}' ends the object, ',' brings another member
ParseMembersAfter(str, members, j) ==
    IF j > Len(str) THEN ParseFail
    ELSE IF str[j] = 125 THEN Parsed(JsObj(members), j + 1)
    ELSE IF str[j] = 44 THEN ParseMembers(str, SkipWhitespace(str, j + 1), members)
    ELSE ParseFail

ParseMemberValue(str, acc, key, r) ==
    IF ~r.ok THEN ParseFail
    ELSE ParseMembersAfter(str, SetMember(acc, key, r.v), SkipWhitespace(str, r.i))

\* after the key, at c: ':' and the value
ParseMemberColon(str, acc, key, c) ==
    IF c > Len(str) \/ str[c] # 58 THEN ParseFail
    ELSE ParseMemberValue(str, acc, key, ParseValue(str, SkipWhitespace(str, c + 1)))

ParseMemberKey(str, acc, key) ==
    IF ~key.ok THEN ParseFail
    ELSE ParseMemberColon(str, acc, key.v.s, SkipWhitespace(str, key.i))

\* "key" : value (, "key" : value)* } with the first key at i
ParseMembers(str, i, acc) ==
    IF i > Len(str) \/ str[i] # 34 THEN ParseFail
    ELSE ParseMemberKey(str, acc, ParseString(str, i + 1, <<>>))

\* r is the whole of str, but for whitespace
WholeText(str, r) ==
    IF r.ok /\ SkipWhitespace(str, r.i) > Len(str) THEN Ok(r.v) ELSE Throw

\* JSON.parse(str): a SyntaxError unless str is exactly one JSON text
JsonParse(str) == WholeText(str, ParseValue(str, SkipWhitespace(str, 1)))

(***************************************************************************)
(* src/shared/compression.ts                                               *)
(***************************************************************************)
ModeEdit == <<101, 100, 105, 116>>

ModeLive == <<108, 105, 118, 101>>

ModeView == <<118, 105, 101, 119>>

\* type PreviewMode = 'edit' | 'live' | 'view'
PreviewMode == {JsStr(ModeEdit), JsStr(ModeLive), JsStr(ModeView)}

KContent == <<99, 111, 110, 116, 101, 110, 116>>

KMode == <<109, 111, 100, 101>>

\* interface ContentData; the fields hold whatever value the code puts there
ContentData(content, mode) == [content |-> content, mode |-> mode]

EmptyDocument == ContentData(JsStr(<<>>), JsStr(ModeEdit))

\* a promise that has settled
Fulfilled(value) == [status |-> "fulfilled", value |-> value]

Rejected == [status |-> "rejected", value |-> <<>>]

\* steps of the pipelines at which the runtime may throw (a missing
\* CompressionStream, a failed import, an allocation failure)
EncodeFaults == {"none", "stringify", "utf8", "compress", "base64"}

DecodeFaults == {"none", "base64", "decompress", "utf8"}

\* the body of encodeContent's try block: Ok(token), or Throw
EncodeTry(text, mode, isTerminal, fault) ==
    IF fault = "stringify" THEN Throw
    ELSE LET data       == JsObj(<<Member(KContent, text), Member(KMode, mode)>>)
             jsonString == JsonStringify(data)
         IN
      IF fault = "utf8" THEN Throw
      ELSE LET utf8Bytes == Utf8Encode(jsonString) IN
        IF fault = "compress" THEN Throw
        ELSE LET compressedBytes == Gzip(utf8Bytes) IN
          IF fault = "base64" THEN Throw
          ELSE IF isTerminal THEN Ok(BufferToBase64(compressedBytes))
          ELSE Btoa(compressedBytes)

\* EncodeContent with the shortcut taken for empty content in any mode
EncodeContentAnyMode(text, mode, isTerminal, fault) ==
    IF ~Truthy(text) THEN Fulfilled(<<>>)
    ELSE Fulfilled(TryCatch(EncodeTry(text, mode, isTerminal, fault), <<>>))

\* EncodeContent without the catch block
EncodeContentNoCatch(text, mode, isTerminal, fault) ==
    IF ~Truthy(text) /\ mode = JsStr(ModeEdit) THEN Fulfilled(<<>>)
    ELSE IF EncodeTry(text, mode, isTerminal, fault).ok
    THEN Fulfilled(EncodeTry(text, mode, isTerminal, fault).v)
    ELSE Rejected

\* encodeContent(text, mode), settled
EncodeContent(text, mode, isTerminal, fault) ==
    IF ~Truthy(text) /\ mode = JsStr(ModeEdit) THEN Fulfilled(<<>>)
    ELSE Fulfilled(TryCatch(EncodeTry(text, mode, isTerminal, fault), <<>>))

\* ContentDataOf with the record's mode ignored
ContentDataOfEditOnly(data, legacy) ==
    IF TypeOf(data) = "object" /\ data # JsNull /\ HasProperty(data, KContent)
    THEN ContentData(JsOr(GetProperty(data, KContent), JsStr(<<>>)), JsStr(ModeEdit))
    ELSE legacy

\* ContentDataOf without the test for the 'content' key
ContentDataOfAnyObject(data, legacy) ==
    IF TypeOf(data) = "object" /\ data # JsNull
    THEN ContentData(JsOr(GetProperty(data, KContent), JsStr(<<>>)),
                     JsOr(GetProperty(data, KMode), JsStr(ModeEdit)))
    ELSE legacy

\* the body of parseContentData's try block, data being what JSON.parse
\* returned; the legacy document when the if is not taken
ContentDataOf(data, legacy) ==
    IF TypeOf(data) = "object" /\ data # JsNull /\ HasProperty(data, KContent)
    THEN ContentData(JsOr(GetProperty(data, KContent), JsStr(<<>>)),
                     JsOr(GetProperty(data, KMode), JsStr(ModeEdit)))
    ELSE legacy

ParseContentDataTry(parsed, legacy) ==
    IF ~parsed.ok THEN legacy ELSE ContentDataOf(parsed.v, legacy)

\* parseContentData(jsonString)
ParseContentData(jsonString) ==
    ParseContentDataTry(JsonParse(jsonString),
                        ContentData(JsStr(jsonString), JsStr(ModeEdit)))

\* decodeContent from the decompressed bytes on
DecodeText(decompressed, isTerminal, fault) ==
    IF ~decompressed.ok \/ fault = "utf8" THEN Throw
    ELSE Ok(ParseContentData(IF isTerminal THEN BufferToStringUtf8(decompressed.v)
                             ELSE TextDecoderDecode(decompressed.v)))

\* decodeContent from the compressed bytes on
DecodeCompressed(compressed, isTerminal, fault) ==
    IF ~compressed.ok \/ fault = "decompress" THEN Throw
    ELSE DecodeText(IF isTerminal THEN GunzipSync(compressed.v)
                    ELSE DecompressionStreamGzip(compressed.v),
                    isTerminal, fault)

\* the body of decodeContent's try block: Ok(document), or Throw
DecodeTry(encoded, isTerminal, fault) ==
    IF fault = "base64" THEN Throw
    ELSE DecodeCompressed(IF isTerminal THEN Ok(BufferFromBase64(encoded))
                          ELSE Atob(encoded),
                          isTerminal, fault)

\* decodeContent(encoded), settled
DecodeContent(encoded, isTerminal, fault) ==
    IF encoded = <<>> THEN Fulfilled(EmptyDocument)
    ELSE Fulfilled(TryCatch(DecodeTry(encoded, isTerminal, fault), EmptyDocument))

(***************************************************************************)
(* The codec on its own: one call of encodeContent and decodeContent on an *)
(* input drawn from the sets below.                                        *)
(***************************************************************************)
VARIABLES
    isTerminal,     \* compression.ts:11
    input,          \* what the calls are applied to, and how it was built
    encodeFault,    \* where the runtime failed during encodeContent
    encodePromise,  \* the promise encodeContent returned
    decodeFault,    \* where the runtime failed during decodeContent
    decodePromise,  \* the promise decodeContent returned
    pc,             \* "ready", "encoded", "decoded"
    calls           \* the calls of encodeContent and decodeContent in flight

codecVars ==
    <<isTerminal, input, encodeFault, encodePromise, decodeFault, decodePromise, pc, calls>>

MaxTextLen == 2

\* 'a', '"', '\', line feed, U+0001, e-acute, the halves of an emoji, a
\* byte order mark
TextAlphabet == {97, 34, 92, 10, 1, 233, 55357, 56832, 65279}

RECURSIVE StringsUpTo(_, _)
StringsUpTo(alphabet, n) ==
    IF n = 0 THEN {<<>>}
    ELSE LET shorter == StringsUpTo(alphabet, n - 1) IN
         shorter \cup {Append(str, c) : str \in shorter, c \in alphabet}

Texts == StringsUpTo(TextAlphabet, MaxTextLen)

\* no unpaired surrogate
IsWellFormed(str) ==
    \A i \in 1..Len(str) :
        /\ IsHighSurrogate(str[i]) => i < Len(str) /\ IsLowSurrogate(str[i + 1])
        /\ IsLowSurrogate(str[i]) => i > 1 /\ IsHighSurrogate(str[i - 1])

\* a token of the earlier format: base64(gzip(utf8(text)))
LegacyToken(str) == BufferToBase64(Gzip(Utf8Encode(str)))

Input(kind, content, mode, text, token, defect) ==
    [kind |-> kind, content |-> content, mode |-> mode, text |-> text,
     token |-> token, defect |-> defect]

DocumentInputs ==
    {Input("document", JsStr(str), mode, <<>>, <<>>, "") :
        str \in Texts, mode \in PreviewMode}

\* values a JSON text can denote
JsonSamples ==
    {JsNull, JsBool(TRUE), JsBool(FALSE), JsNum(<<48>>, FALSE), JsNum(<<53>>, TRUE),
     JsStr(<<>>), JsStr(<<97>>), JsArr(<<>>), JsArr(<<JsStr(<<97>>)>>), JsObj(<<>>),
     JsObj(<<Member(<<97>>, JsNum(<<53>>, TRUE))>>)}

\* plain texts of the earlier format: markdown, and texts that are JSON
LegacyTexts ==
    {str \in Texts : IsWellFormed(str)}
    \cup {<<35, 32, 72, 10, 87>>}
    \cup {JsonStringify(v) : v \in JsonSamples}
    \cup {<<32>> \o JsonStringify(v) \o <<10>> : v \in JsonSamples}
    \cup {JsonStringify(JsObj(<<Member(KContent, v)>>)) : v \in JsonSamples}
    \cup {JsonStringify(JsObj(<<Member(KContent, JsStr(<<97>>)), Member(KMode, m)>>)) :
            m \in PreviewMode}

LegacyInputs ==
    {Input("legacy", JsUndefined, JsUndefined, str, LegacyToken(str), "") :
        str \in LegacyTexts}

\* values of the mode field of a record: the wire modes and others
ModeSamples ==
    PreviewMode \cup {JsUndefined, JsNull, JsStr(<<>>), JsStr(<<120>>),
                      JsNum(<<53>>, TRUE), JsNum(<<48>>, FALSE), JsBool(TRUE), JsObj(<<>>)}

\* the members of a record; an undefined field is left out
RecordOf(content, mode) ==
    JsObj((IF content = JsUndefined THEN <<>> ELSE <<Member(KContent, content)>>)
          \o (IF mode = JsUndefined THEN <<>> ELSE <<Member(KMode, mode)>>))

RecordInputs ==
    {Input("record", c, m, JsonStringify(RecordOf(c, m)),
           LegacyToken(JsonStringify(RecordOf(c, m))), "") :
        c \in JsonSamples \cup {JsUndefined}, m \in ModeSamples}

MaxGarbageLen == 2

\* 'A', '!' (outside every base64 alphabet), '='
GarbageAlphabet == {65, 33, 61}

\* the record of the document ("a", view), as text
SampleRecordText == JsonStringify(RecordOf(JsStr(<<97>>), JsStr(ModeView)))

InsertAt(str, i, c) == SubSeq(str, 1, i) \o <<c>> \o Tail2(str, i + 1)

\* strings with a character outside the base64 alphabet
BadAlphabetTokens ==
    {str \in StringsUpTo(GarbageAlphabet, MaxGarbageLen) : \E i \in 1..Len(str) : str[i] = 33}
    \cup {InsertAt(LegacyToken(SampleRecordText), i, 33) :
            i \in {0, 4, Len(LegacyToken(SampleRecordText))}}

\* byte strings that are no gzip stream: a cut-off member, a wrong data
\* check, a wrong header, no header at all
CorruptGzipStreams ==
    LET good == Gzip(Utf8Encode(SampleRecordText))
        n    == Len(good)
    IN  {SubSeq(good, 1, m) : m \in {1, 2, 3, n \div 2, n - 1}}
        \cup {[good EXCEPT ![n] = (@ + 1) % 256], [good EXCEPT ![2] = 140],
              [good EXCEPT ![3] = @ + 1], <<0, 0, 0>>,
              Utf8Encode(SampleRecordText)}

\* byte strings that are not UTF-8: a lone continuation-range byte 0xFF, a
\* cut-off sequence, a bad continuation, an overlong form, an encoded
\* surrogate, and a record with such a byte inside
InvalidUtf8 ==
    {<<255>>, <<195>>, <<226, 130, 65>>, <<192, 128>>, <<237, 160, 128>>,
     Utf8Encode(<<123, 34>> \o KContent \o <<34, 58, 34>>) \o <<255>> \o <<34, 125>>}

GarbageInputs ==
    {Input("garbage", JsUndefined, JsUndefined, <<>>, str, "base64") :
        str \in BadAlphabetTokens}
    \cup {Input("garbage", JsUndefined, JsUndefined, <<>>, BufferToBase64(bytes), "gzip") :
            bytes \in CorruptGzipStreams}
    \cup {Input("garbage", JsUndefined, JsUndefined, <<>>, BufferToBase64(Gzip(bytes)), "utf8") :
            bytes \in InvalidUtf8}

Inputs == DocumentInputs \cup LegacyInputs \cup RecordInputs \cup GarbageInputs

Pending == [status |-> "pending", value |-> <<>>]

(***************************************************************************)
(* The Editor component                                                    *)
(***************************************************************************)
URL_CHAR_LIMIT == 16000

DEBOUNCE_MS == 1000

VARIABLES
    content,            \* useState('')
    previewMode,        \* useState<PreviewMode>('edit')
    urlUsage,           \* useState(0): a percentage, kept as the fraction num / den
    isLimitReached,     \* useState(false)
    debounceRef,        \* the id of the timer set last, 0 for null
    isInitializedRef,
    timers,             \* the pending setTimeout callbacks of handleContentChange
    location,           \* window.location: lengths of origin and pathname, the hash
    loadPc,             \* loadFromUrl: at "mount", "decoding" or "done", and its local hash
    saves,              \* saveToUrl invocations waiting for encodeContent
    lastSave            \* what the saveToUrl invocation that ran last did

editorVars ==
    <<content, previewMode, urlUsage, isLimitReached, debounceRef, isInitializedRef, timers, location, loadPc, saves, lastSave>>

vars == <<codecVars, editorVars>>

MaxInFlight == 1

MaxContentLen == 1

Percent(totalLength) == [num |-> totalLength * 100, den |-> URL_CHAR_LIMIT]

\* usage >= n and usage < n, for the fraction usage
UsageAtLeast(usage, n) == usage.num >= n * usage.den

UsageBelow(usage, n) == usage.num < n * usage.den

\* BadgeClasses with the second band opening above 50 instead of at 50
BadgeClassesAbove(usage) ==
    {c \in {"green", "yellow", "orange", "red"} :
        \/ c = "green" /\ UsageBelow(usage, 50)
        \/ c = "yellow" /\ ~UsageBelow(usage, 50) /\ usage.num # 50 * usage.den
                        /\ UsageBelow(usage, 75)
        \/ c = "orange" /\ UsageAtLeast(usage, 75) /\ UsageBelow(usage, 100)
        \/ c = "red" /\ UsageAtLeast(usage, 100)}

\* the colour classes the usage badge gets from cn(...)
BadgeClasses(usage) ==
    {c \in {"green", "yellow", "orange", "red"} :
        \/ c = "green" /\ UsageBelow(usage, 50)
        \/ c = "yellow" /\ UsageAtLeast(usage, 50) /\ UsageBelow(usage, 75)
        \/ c = "orange" /\ UsageAtLeast(usage, 75) /\ UsageBelow(usage, 100)
        \/ c = "red" /\ UsageAtLeast(usage, 100)}

\* ShouldPushState with <= for <
ShouldPushStateAtLimit(totalLength) == totalLength <= URL_CHAR_LIMIT

\* the guard of window.history.pushState in saveToUrl
ShouldPushState(totalLength) == totalLength < URL_CHAR_LIMIT

NoSave ==
    [done |-> FALSE, tokenLength |-> 0, totalLength |-> 0, pushed |-> FALSE,
     caught |-> FALSE]

\* the state of the editor before it is mounted
EditorUnmounted ==
    /\ content = JsStr(<<>>)
    /\ previewMode = JsStr(ModeEdit)
    /\ urlUsage = Percent(0)
    /\ isLimitReached = FALSE
    /\ debounceRef = 0
    /\ isInitializedRef = FALSE
    /\ timers = <<>>
    /\ loadPc = [at |-> "mount", hash |-> <<>>]
    /\ saves = <<>>
    /\ lastSave = NoSave

\* the token of the document ("a", edit); its length places the page
\* addresses below at the band boundaries
ReferenceToken == EncodeContent(JsStr(<<97>>), JsStr(ModeEdit), FALSE, "none").value

\* total lengths at the band boundaries, one below the limit, and inside
\* the second and the last band
TotalLengths ==
    {URL_CHAR_LIMIT \div 2, (3 * URL_CHAR_LIMIT) \div 4, URL_CHAR_LIMIT - 1,
     URL_CHAR_LIMIT, URL_CHAR_LIMIT \div 2 + 500, URL_CHAR_LIMIT + 500}

\* page addresses: origin "https://uicnz.github.io" with the paths "/" and
\* "/aria-mark/", and paths so long that the URL of the reference document
\* has one of the total lengths above
Locations ==
    {[origin |-> 23, path |-> 1], [origin |-> 23, path |-> 11]}
    \cup {[origin |-> 23, path |-> total - 23 - 1 - Len(ReferenceToken)] :
            total \in TotalLengths}

\* fragments the page may be opened with: a token of this encoder, a legacy
\* token, a record whose content is a number and whose mode is unknown, and
\* garbage
InitialHashes ==
    {EncodeContent(JsStr(<<97>>), JsStr(ModeView), FALSE, "none").value,
     LegacyToken(<<35, 32, 72, 10, 87>>),
     LegacyToken(JsonStringify(RecordOf(JsNum(<<53>>, TRUE), JsStr(<<120>>)))),
     <<33>>}

\* every page address without a fragment, every fragment at the address of
\* the deployment, and a token at the address that puts the reference
\* document at the limit
InitialLocations ==
    {[origin |-> l.origin, path |-> l.path, hash |-> <<>>] : l \in Locations}
    \cup {[origin |-> 23, path |-> 11, hash |-> h] : h \in InitialHashes}
    \cup {[origin |-> 23, path |-> URL_CHAR_LIMIT - 23 - 1 - Len(ReferenceToken),
           hash |-> ReferenceToken]}

EditorInit ==
    /\ EditorUnmounted
    /\ location \in InitialLocations
    /\ isTerminal = FALSE
    /\ input = Input("none", JsUndefined, JsUndefined, <<>>, <<>>, "")
    /\ encodeFault = "none"
    /\ encodePromise = Pending
    /\ decodeFault = "none"
    /\ decodePromise = Pending
    /\ pc = "idle"
    /\ calls = <<>>

PercentEncode(byte) == <<37, HexUpper(byte \div 16), HexUpper(byte % 16)>>

RECURSIVE PercentEncodeAll(_)
PercentEncodeAll(bytes) ==
    IF bytes = <<>> THEN <<>>
    ELSE PercentEncode(bytes[1]) \o PercentEncodeAll(Tail(bytes))

\* the fragment percent-encode set of the URL parser: C0 controls, space,
\* '"', '<', '>', '`' and everything above '~'
InFragmentEncodeSet(c) == c < 32 \/ c > 126 \/ c \in {32, 34, 60, 62, 96}

\* the fragment the URL parser stores for the text after '#': tab and
\* newlines are dropped, code points of the encode set are percent-encoded
RECURSIVE FragmentOf(_)
FragmentOf(str) ==
    IF str = <<>> THEN <<>>
    ELSE IF str[1] \in {9, 10, 13} THEN FragmentOf(Tail(str))
    ELSE IF IsHighSurrogate(str[1]) /\ Len(str) >= 2 /\ IsLowSurrogate(str[2])
    THEN PercentEncodeAll(Utf8Encode(SubSeq(str, 1, 2))) \o FragmentOf(Tail2(str, 3))
    ELSE IF InFragmentEncodeSet(str[1])
    THEN PercentEncodeAll(Utf8Encode(<<str[1]>>)) \o FragmentOf(Tail(str))
    ELSE <<str[1]>> \o FragmentOf(Tail(str))

\* window.location.hash: '#' and the fragment, '' when the fragment is empty
LocationHash(loc) == IF loc.hash = <<>> THEN <<>> ELSE <<35>> \o loc.hash

\* window.location.hash.slice(1)
HashSlice(loc) == Tail2(LocationHash(loc), 2)

\* loadFromUrl up to its await
LoadFromUrl ==
    /\ loadPc.at = "mount"
    /\ IF HashSlice(location) # <<>>
       THEN /\ loadPc' = [at |-> "decoding", hash |-> HashSlice(location)]
            /\ UNCHANGED isInitializedRef
       ELSE /\ loadPc' = [at |-> "done", hash |-> <<>>]
            /\ isInitializedRef' = TRUE
    /\ UNCHANGED <<content, previewMode, urlUsage, isLimitReached, debounceRef,
                   timers, location, saves, lastSave>>
    /\ UNCHANGED codecVars

\* setContent(data.content); setPreviewMode(data.mode)
SetDocument(data) ==
    /\ content' = data.content
    /\ previewMode' = data.mode

\* loadFromUrl after decodeContent has settled
LoadFromUrlResume ==
    /\ loadPc.at = "decoding"
    /\ \E fault \in DecodeFaults :
         SetDocument(DecodeContent(loadPc.hash, isTerminal, fault).value)
    /\ isInitializedRef' = TRUE
    /\ loadPc' = [at |-> "done", hash |-> <<>>]
    /\ UNCHANGED <<urlUsage, isLimitReached, debounceRef, timers,
                   location, saves, lastSave>>
    /\ UNCHANGED codecVars

\* saveToUrl(text, mode) up to its await: the invocations then in flight
SaveToUrl(text, mode) ==
    IF ~isInitializedRef THEN saves
    ELSE Append(saves, [text |-> text, mode |-> mode])

\* saveToUrl may be entered: at most MaxInFlight invocations wait at a time
CanSave == ~isInitializedRef \/ Len(saves) < MaxInFlight

RemoveAt(seq, i) == SubSeq(seq, 1, i - 1) \o Tail2(seq, i + 1)

\* NewUrl without the '#'
NewUrlNoDelimiter(encoded, loc) ==
    IF encoded # <<>>
    THEN [text |-> encoded, length |-> Len(encoded), pathname |-> FALSE]
    ELSE [text |-> <<>>, length |-> loc.path, pathname |-> TRUE]

\* newUrl: '#' and the token, or window.location.pathname, of which only the
\* length is kept
NewUrl(encoded, loc) ==
    IF encoded # <<>>
    THEN [text |-> <<35>> \o encoded, length |-> 1 + Len(encoded), pathname |-> FALSE]
    ELSE [text |-> <<>>, length |-> loc.path, pathname |-> TRUE]

\* window.history.pushState(null, '', url): url is resolved against the
\* page's URL.  The pathname keeps the path and drops the fragment; a text
\* that starts with '#' replaces the fragment; any other text is a relative
\* path, which replaces the last segment of the path (empty for the paths
\* here, which end in '/').
PushState(loc, url) ==
    IF url.pathname THEN [loc EXCEPT !.hash = <<>>]
    ELSE IF url.text # <<>> /\ url.text[1] = 35
    THEN [loc EXCEPT !.hash = FragmentOf(Tail(url.text))]
    ELSE [loc EXCEPT !.path = loc.path + Len(url.text), !.hash = <<>>]

\* SaveToUrlAfterAwait that empties the editor when the token is empty
SaveToUrlAfterAwaitClears(i, encoded) ==
    LET text        == saves[i].text
        newUrl      == NewUrl(encoded, location)
        totalLength == location.origin + location.path + newUrl.length
        usage       == Percent(totalLength)
        push        == ShouldPushState(totalLength)
    IN
    /\ urlUsage' = usage
    /\ isLimitReached' = UsageAtLeast(usage, 100)
    /\ location' = IF push THEN PushState(location, newUrl) ELSE location
    /\ lastSave' = [done |-> TRUE, tokenLength |-> Len(encoded),
                    totalLength |-> totalLength, pushed |-> push,
                    caught |-> text.t # "string"]
    /\ saves' = RemoveAt(saves, i)
    /\ content' = IF encoded = <<>> THEN JsStr(<<>>) ELSE content
    /\ UNCHANGED <<previewMode, debounceRef, isInitializedRef, timers, loadPc>>
    /\ UNCHANGED codecVars

\* saveToUrl after encodeContent has settled
SaveToUrlAfterAwait(i, encoded) ==
    LET text        == saves[i].text
        newUrl      == NewUrl(encoded, location)
        totalLength == location.origin + location.path + newUrl.length
        usage       == Percent(totalLength)
        push        == ShouldPushState(totalLength)
    IN
    /\ urlUsage' = usage
    /\ isLimitReached' = UsageAtLeast(usage, 100)
    /\ location' = IF push THEN PushState(location, newUrl) ELSE location
    \* the page title is set last, from text.split('\n'): a TypeError, caught,
    \* when the text is no string
    /\ lastSave' = [done |-> TRUE, tokenLength |-> Len(encoded),
                    totalLength |-> totalLength, pushed |-> push,
                    caught |-> text.t # "string"]
    /\ saves' = RemoveAt(saves, i)
    /\ UNCHANGED <<content, previewMode, debounceRef, isInitializedRef, timers, loadPc>>
    /\ UNCHANGED codecVars

\* in the browser the pipeline fails when CompressionStream is missing
EditorEncodeFaults == {"none", "compress"}

SaveToUrlSettles ==
    \E i \in 1..Len(saves), fault \in EditorEncodeFaults :
        SaveToUrlAfterAwait(i, EncodeContent(saves[i].text, saves[i].mode,
                                             isTerminal, fault).value)

\* the id setTimeout returns: one that no pending timer has
TimerId(pending) ==
    CHOOSE id \in 1..(Len(pending) + 1) :
        /\ \A i \in 1..Len(pending) : pending[i].id # id
        /\ \A smaller \in 1..(id - 1) : \E i \in 1..Len(pending) : pending[i].id = smaller

\* ClearTimeout that cancels nothing
ClearTimeoutNone(id) == timers

\* clearTimeout(id)
ClearTimeout(id) == SelectSeq(timers, LAMBDA t : t.id # id)

\* handleContentChange(value)
HandleContentChange(value) ==
    LET newContent == JsOr(value, JsStr(<<>>)) IN
    /\ content' = newContent
    /\ LET kept == IF debounceRef # 0 THEN ClearTimeout(debounceRef) ELSE timers
           id   == TimerId(kept)
       IN  /\ timers' = Append(kept, [id |-> id, text |-> newContent, mode |-> previewMode])
           /\ debounceRef' = id
    /\ UNCHANGED <<previewMode, urlUsage, isLimitReached, isInitializedRef, location, loadPc, saves, lastSave>>
    /\ UNCHANGED codecVars

\* the debounce timer fires, DEBOUNCE_MS after it was set
DebounceTimeout ==
    /\ CanSave
    /\ \E i \in 1..Len(timers) :
         /\ saves' = SaveToUrl(timers[i].text, timers[i].mode)
         /\ timers' = RemoveAt(timers, i)
    /\ UNCHANGED <<content, previewMode, urlUsage, isLimitReached, debounceRef,
                   isInitializedRef, location, loadPc, lastSave>>
    /\ UNCHANGED codecVars

Modes == <<JsStr(ModeEdit), JsStr(ModeLive), JsStr(ModeView)>>

\* modes.indexOf(mode), 0-based, -1 when absent
IndexOfMode(mode) ==
    IF \E i \in 1..Len(Modes) : Modes[i] = mode
    THEN (CHOOSE i \in 1..Len(Modes) : Modes[i] = mode) - 1
    ELSE -1

NextMode(mode) == Modes[((IndexOfMode(mode) + 1) % Len(Modes)) + 1]

\* cycleMode()
CycleMode ==
    /\ CanSave
    /\ previewMode' = NextMode(previewMode)
    /\ saves' = SaveToUrl(content, NextMode(previewMode))
    /\ UNCHANGED <<content, urlUsage, isLimitReached, debounceRef, isInitializedRef, timers, location, loadPc, lastSave>>
    /\ UNCHANGED codecVars

Min(a, b) == IF a < b THEN a ELSE b

\* handleTranscription(text).  The cursor position, which only this handler
\* reads, is not kept: position is any value handleCaptureCursor or the
\* handler's own 100 ms timer can have left there.  content.slice throws
\* when the content is no string, and nothing changes.
HandleTranscription(text, position) ==
    LET before     == SubSeq(content.s, 1, Min(position, Len(content.s)))
        after      == Tail2(content.s, Min(position, Len(content.s)) + 1)
        space      == IF Len(before) > 0 /\ before[Len(before)] \notin {32, 10}
                      THEN <<32>> ELSE <<>>
        newContent == before \o space \o text \o after
    IN
    /\ content.t = "string"
    /\ Len(newContent) <= MaxContentLen
    /\ CanSave
    /\ content' = JsStr(newContent)
    /\ saves' = SaveToUrl(JsStr(newContent), previewMode)
    /\ UNCHANGED <<previewMode, urlUsage, isLimitReached, debounceRef, isInitializedRef,
                   timers, location, loadPc, lastSave>>
    /\ UNCHANGED codecVars

\* handleRecordingStart()
HandleRecordingStart ==
    /\ CanSave
    /\ timers' = IF debounceRef # 0 THEN ClearTimeout(debounceRef) ELSE timers
    /\ debounceRef' = 0
    /\ saves' = SaveToUrl(content, previewMode)
    /\ UNCHANGED <<content, previewMode, urlUsage, isLimitReached, isInitializedRef, location, loadPc, lastSave>>
    /\ UNCHANGED codecVars

\* what MDEditor hands to onChange: the text typed, or undefined
EditValues == {JsUndefined, JsStr(<<97>>)}

TranscriptionTexts == {<<97>>}

Next ==
    \/ LoadFromUrl
    \/ LoadFromUrlResume
    \/ SaveToUrlSettles
    \/ \E value \in EditValues : HandleContentChange(value)
    \/ DebounceTimeout
    \/ CycleMode
    \/ \E text \in TranscriptionTexts, position \in 0..MaxContentLen :
         HandleTranscription(text, position)
    \/ HandleRecordingStart

Spec == EditorInit /\ [][Next]_vars

(***************************************************************************)
(* The codec on its own: the calls, on an input drawn from Inputs          *)
(***************************************************************************)
CodecInit ==
    /\ EditorUnmounted
    /\ location = [origin |-> 23, path |-> 1, hash |-> <<>>]
    /\ isTerminal \in BOOLEAN
    /\ input \in Inputs
    /\ encodeFault = "none"
    /\ encodePromise = Pending
    /\ decodeFault = "none"
    /\ decodePromise = Pending
    /\ pc = "ready"
    /\ calls = <<>>

\* encodeContent(input.content, input.mode)
CallEncodeContent ==
    /\ pc = "ready"
    /\ input.kind = "document"
    /\ \E fault \in EncodeFaults :
        /\ encodeFault' = fault
        /\ encodePromise' = EncodeContent(input.content, input.mode, isTerminal, fault)
    /\ pc' = "encoded"
    /\ UNCHANGED <<isTerminal, input, decodeFault, decodePromise, calls>>
    /\ UNCHANGED editorVars

\* decodeContent of the token just produced
CallDecodeContentOfEncoded ==
    /\ pc = "encoded"
    /\ encodePromise.status = "fulfilled"
    /\ \E fault \in DecodeFaults :
        /\ decodeFault' = fault
        /\ decodePromise' = DecodeContent(encodePromise.value, isTerminal, fault)
    /\ pc' = "decoded"
    /\ UNCHANGED <<isTerminal, input, encodeFault, encodePromise, calls>>
    /\ UNCHANGED editorVars

\* decodeContent of a token that was handed in
CallDecodeContent ==
    /\ pc = "ready"
    /\ input.kind # "document"
    /\ \E fault \in DecodeFaults :
        /\ decodeFault' = fault
        /\ decodePromise' = DecodeContent(input.token, isTerminal, fault)
    /\ pc' = "decoded"
    /\ UNCHANGED <<isTerminal, input, encodeFault, encodePromise, calls>>
    /\ UNCHANGED editorVars

CodecNext == CallEncodeContent \/ CallDecodeContentOfEncoded \/ CallDecodeContent

CodecSpec == CodecInit /\ [][CodecNext]_vars

(***************************************************************************)
(* The codec under concurrency: calls are started, suspend at their await, *)
(* and resume in any order                                                 *)
(***************************************************************************)
MaxCalls == 2

\* an async function at its await, with the local it resumes with
Suspended(local) == [settled |-> FALSE, local |-> local, promise |-> Pending]

\* an async function that has returned
Settled(promise) == [settled |-> TRUE, local |-> <<>>, promise |-> promise]

\* encodeContent up to its await: import('zlib') in the terminal, with
\* jsonString computed; the compressed stream's arrayBuffer() in the
\* browser, with utf8Bytes computed
EncodeBeforeAwait(text, mode, terminal, fault) ==
    IF ~Truthy(text) /\ mode = JsStr(ModeEdit) THEN Settled(Fulfilled(<<>>))
    ELSE IF fault = "stringify" THEN Settled(Fulfilled(<<>>))
    ELSE IF terminal
    THEN Suspended(JsonStringify(JsObj(<<Member(KContent, text), Member(KMode, mode)>>)))
    ELSE IF fault = "utf8" THEN Settled(Fulfilled(<<>>))
    ELSE Suspended(Utf8Encode(JsonStringify(
                     JsObj(<<Member(KContent, text), Member(KMode, mode)>>))))

\* encodeContent from its await on
EncodeAfterAwait(local, terminal, fault) ==
    IF fault \in {"compress", "base64"} \/ (terminal /\ fault = "utf8")
    THEN Fulfilled(<<>>)
    ELSE IF terminal THEN Fulfilled(BufferToBase64(Gzip(Utf8Encode(local))))
    ELSE Fulfilled(TryCatch(Btoa(Gzip(local)), <<>>))

\* decodeContent up to its await: import('zlib') in the terminal, with
\* nothing computed; the decompressed stream's arrayBuffer() in the
\* browser, with compressedBytes computed
DecodeBeforeAwait(encoded, terminal, fault) ==
    IF encoded = <<>> THEN Settled(Fulfilled(EmptyDocument))
    ELSE IF terminal THEN Suspended(encoded)
    ELSE IF fault = "base64" \/ ~Atob(encoded).ok
    THEN Settled(Fulfilled(EmptyDocument))
    ELSE Suspended(Atob(encoded).v)

\* decodeContent from its await on
DecodeAfterAwait(local, terminal, fault) ==
    IF terminal /\ fault = "base64" THEN Fulfilled(EmptyDocument)
    ELSE Fulfilled(TryCatch(
            DecodeCompressed(IF terminal THEN Ok(BufferFromBase64(local)) ELSE Ok(local),
                             terminal, fault),
            EmptyDocument))

\* the documents and tokens the concurrent calls are given
ConcurrentDocuments ==
    {<<JsStr(<<>>), JsStr(ModeEdit)>>, <<JsStr(<<>>), JsStr(ModeLive)>>,
     <<JsStr(<<97>>), JsStr(ModeView)>>, <<JsStr(<<233>>), JsStr(ModeEdit)>>}

ConcurrentTokens == {ReferenceToken, LegacyToken(<<35, 32, 72, 10, 87>>), <<33>>}

ConcurrentDecodeFaults == {"none", "decompress"}

Call(op, text, mode, token, fault, state) ==
    [op |-> op, text |-> text, mode |-> mode, token |-> token, fault |-> fault,
     settled |-> state.settled, local |-> state.local, promise |-> state.promise]

ConcurrentInit ==
    /\ EditorUnmounted
    /\ location = [origin |-> 23, path |-> 1, hash |-> <<>>]
    /\ isTerminal \in BOOLEAN
    /\ input = Input("none", JsUndefined, JsUndefined, <<>>, <<>>, "")
    /\ encodeFault = "none"
    /\ encodePromise = Pending
    /\ decodeFault = "none"
    /\ decodePromise = Pending
    /\ pc = "idle"
    /\ calls = <<>>

\* a call of encodeContent(text, mode) runs to its await, or to its return
StartEncodeContent(text, mode, fault) ==
    /\ Len(calls) < MaxCalls
    /\ calls' = Append(calls, Call("encode", text, mode, <<>>, fault,
                                   EncodeBeforeAwait(text, mode, isTerminal, fault)))
    /\ UNCHANGED <<isTerminal, input, encodeFault, encodePromise, decodeFault,
                   decodePromise, pc>>
    /\ UNCHANGED editorVars

\* a call of decodeContent(encoded) runs to its await, or to its return
StartDecodeContent(encoded, fault) ==
    /\ Len(calls) < MaxCalls
    /\ calls' = Append(calls, Call("decode", JsUndefined, JsUndefined, encoded, fault,
                                   DecodeBeforeAwait(encoded, isTerminal, fault)))
    /\ UNCHANGED <<isTerminal, input, encodeFault, encodePromise, decodeFault,
                   decodePromise, pc>>
    /\ UNCHANGED editorVars

\* LocalOf read from a place all calls share, which the call started last
\* has written
LocalOfLast(i) == calls[Len(calls)].local

\* the locals of call i (jsonString, utf8Bytes, encoded, compressedBytes):
\* each call has its own
LocalOf(i) == calls[i].local

\* call i resumes after its await and returns
ResumeCall(i) ==
    /\ ~calls[i].settled
    /\ calls' = [calls EXCEPT ![i] =
            [@ EXCEPT !.settled = TRUE, !.local = <<>>,
                      !.promise = IF calls[i].op = "encode"
                                  THEN EncodeAfterAwait(LocalOf(i), isTerminal, calls[i].fault)
                                  ELSE DecodeAfterAwait(LocalOf(i), isTerminal, calls[i].fault)]]
    /\ UNCHANGED <<isTerminal, input, encodeFault, encodePromise, decodeFault,
                   decodePromise, pc>>
    /\ UNCHANGED editorVars

\* the caller has taken the result of call i
CollectCall(i) ==
    /\ calls[i].settled
    /\ calls' = RemoveAt(calls, i)
    /\ UNCHANGED <<isTerminal, input, encodeFault, encodePromise, decodeFault,
                   decodePromise, pc>>
    /\ UNCHANGED editorVars

ConcurrentNext ==
    \/ \E d \in ConcurrentDocuments, fault \in EditorEncodeFaults :
         StartEncodeContent(d[1], d[2], fault)
    \/ \E encoded \in ConcurrentTokens, fault \in ConcurrentDecodeFaults :
         StartDecodeContent(encoded, fault)
    \/ \E i \in 1..Len(calls) : ResumeCall(i)
    \/ \E i \in 1..Len(calls) : CollectCall(i)

ConcurrentSpec == ConcurrentInit /\ [][ConcurrentNext]_vars

(***************************************************************************)
(* Properties of the codec, checked under CodecSpec                        *)
(***************************************************************************)
Decoded(kind) ==
    pc = "decoded" /\ input.kind = kind /\ encodeFault = "none" /\ decodeFault = "none"

\* C1: round trip.  When neither call met a runtime failure,
\* decodeContent(encodeContent(content, mode)) is exactly {content, mode},
\* for every content (empty, multi-byte, unpaired surrogates) and every mode.
RoundTrip ==
    Decoded("document") =>
        decodePromise = Fulfilled(ContentData(input.content, input.mode))

\* an emoji in view mode has made the round trip
RoundTripWitness ==
    /\ Decoded("document")
    /\ input.content = JsStr(<<55357, 56832>>)
    /\ input.mode = JsStr(ModeView)
    /\ encodePromise.value # <<>>
    /\ decodePromise.value.content.s = <<55357, 56832>>

\* the text JSON.parse turns into an object that has a 'content' property
IsRecord(parsed) ==
    parsed.ok /\ parsed.v.t = "object"
    /\ \E i \in 1..Len(parsed.v.k) : parsed.v.k[i].key = KContent

IsRecordText(str) == IsRecord(JsonParse(str))

LegacyVerbatim == decodePromise = Fulfilled(ContentData(JsStr(input.text), JsStr(ModeEdit)))

\* C2 as stated: every legacy token decodes to its text, verbatim, in edit
\* mode, also when the text is JSON for an object that has a 'content' key.
LegacyAlwaysVerbatim == Decoded("legacy") => LegacyVerbatim

\* C2, amended: a legacy token decodes to {content: text, mode: edit}, with
\* the text verbatim, unless the text is JSON for an object that has a
\* 'content' key or, in the browser, starts with a byte order mark.
LegacyCompatibility ==
    (/\ Decoded("legacy")
     /\ ~IsRecordText(input.text)
     /\ ~(~isTerminal /\ input.text # <<>> /\ input.text[1] = 65279))
        => LegacyVerbatim

\* the legacy text "null", which is JSON, came back verbatim
LegacyCompatibilityWitness ==
    /\ Decoded("legacy")
    /\ input.text = KNull
    /\ decodePromise.value.content = JsStr(KNull)

\* C3: a string that is no valid token (a character outside the base64
\* alphabet, a corrupt gzip stream, invalid UTF-8) decodes to the canonical
\* empty document, and decodeContent never rejects.
GarbageDecodesToEmpty ==
    (pc = "decoded" /\ input.kind = "garbage" /\ decodeFault = "none")
        => decodePromise = Fulfilled(EmptyDocument)

\* C4: the mode decodeContent returns is one of edit, live, view, whatever
\* the record holds.
DecodedModeIsWireMode ==
    (pc = "decoded" /\ decodeFault = "none") => decodePromise.value.mode \in PreviewMode

\* C5: for a record with a 'content' key, the content decodeContent returns
\* is the record's content when that is a string, and the empty string
\* otherwise.
DecodedContentIsString ==
    (Decoded("record") /\ input.content # JsUndefined)
        => decodePromise.value.content =
             IF input.content.t = "string" THEN input.content ELSE JsStr(<<>>)

\* C6: encodeContent returns the empty token for the canonical empty
\* document, and, when no runtime failure occurs, a non-empty token for every
\* other document.
EmptyDocumentShortcut ==
    (pc # "ready" /\ input.kind = "document") =>
        /\ ContentData(input.content, input.mode) = EmptyDocument
              => encodePromise = Fulfilled(<<>>)
        /\ (ContentData(input.content, input.mode) # EmptyDocument /\ encodeFault = "none")
              => (encodePromise.status = "fulfilled" /\ encodePromise.value # <<>>)

\* empty content in live mode was given a token
EmptyDocumentShortcutWitness ==
    /\ pc = "encoded"
    /\ input.content = JsStr(<<>>)
    /\ input.mode = JsStr(ModeLive)
    /\ encodeFault = "none"
    /\ encodePromise.value # <<>>

\* C7: encodeContent never rejects; a runtime failure at any step of the
\* pipeline is swallowed and the empty token is returned.
EncodeNeverRejects ==
    (pc # "ready" /\ input.kind = "document") =>
        /\ encodePromise.status = "fulfilled"
        /\ encodeFault # "none" => encodePromise.value = <<>>

\* compression failed for a non-empty document and the call returned ''
EncodeNeverRejectsWitness ==
    /\ pc = "encoded"
    /\ encodeFault = "compress"
    /\ input.content = JsStr(<<97>>)
    /\ encodePromise = Fulfilled(<<>>)

(***************************************************************************)
(* Properties of the URL budget, checked under Spec                        *)
(***************************************************************************)
\* C8: the length the budget is computed from is origin + pathname + 1 +
\* the token's length for every token encodeContent returns, the empty
\* token included, and the usage is that length over URL_CHAR_LIMIT.
BudgetArithmetic ==
    lastSave.done =>
        /\ lastSave.totalLength =
              location.origin + location.path + 1 + lastSave.tokenLength
        /\ urlUsage = Percent(lastSave.totalLength)

\* the band of a total length, by the ratio total / URL_CHAR_LIMIT:
\* [0, 1/2) low, [1/2, 3/4) moderate, [3/4, 1) high, [1, inf) exceeded
Band(total) ==
    IF 2 * total < URL_CHAR_LIMIT THEN "green"
    ELSE IF 4 * total < 3 * URL_CHAR_LIMIT THEN "yellow"
    ELSE IF total < URL_CHAR_LIMIT THEN "orange"
    ELSE "red"

\* C9: the badge shows exactly one band, the band of the total length last
\* computed (low before any save): below 1/2 low, from 1/2 moderate, from
\* 3/4 high, from 1 exceeded, each boundary in the upper band; with the
\* limit 16000 a total of 8500 is moderate and one of 16500 exceeded.
BudgetClassification ==
    /\ BadgeClasses(urlUsage) = {Band(lastSave.totalLength)}
    /\ lastSave.totalLength = URL_CHAR_LIMIT \div 2 => BadgeClasses(urlUsage) = {"yellow"}
    /\ lastSave.totalLength = (3 * URL_CHAR_LIMIT) \div 4 => BadgeClasses(urlUsage) = {"orange"}
    /\ lastSave.totalLength = URL_CHAR_LIMIT => BadgeClasses(urlUsage) = {"red"}
    /\ (URL_CHAR_LIMIT = 16000 /\ lastSave.totalLength = 8500)
          => BadgeClasses(urlUsage) = {"yellow"}
    /\ (URL_CHAR_LIMIT = 16000 /\ lastSave.totalLength = 16500)
          => BadgeClasses(urlUsage) = {"red"}

\* a save computed a total of exactly half the limit and the badge is in
\* the second band
BudgetClassificationWitness ==
    /\ lastSave.done
    /\ lastSave.totalLength = URL_CHAR_LIMIT \div 2
    /\ BadgeClasses(urlUsage) = {"yellow"}

\* the length of the page's URL
UrlLength(loc) ==
    loc.origin + loc.path + (IF loc.hash # <<>> THEN 1 + Len(loc.hash) ELSE 0)

\* C10: when a saveToUrl invocation completes, the URL has been written if
\* and only if the band is not exceeded, the limit warning is off exactly
\* when it was written, a URL that was written is shorter than
\* URL_CHAR_LIMIT, and a suppressed write leaves the URL as it was.
WriteSuppression ==
    [][Len(saves') < Len(saves) =>
        /\ lastSave'.pushed <=> BadgeClasses(urlUsage') # {"red"}
        /\ lastSave'.pushed <=> ~isLimitReached'
        /\ lastSave'.pushed => UrlLength(location') < URL_CHAR_LIMIT
        /\ ~lastSave'.pushed => location' = location]_vars

\* a save of a document whose URL would be exactly URL_CHAR_LIMIT long was
\* suppressed, and the link the page was opened with is still in place
WriteSuppressionWitness ==
    /\ lastSave.done
    /\ ~lastSave.pushed
    /\ lastSave.totalLength = URL_CHAR_LIMIT
    /\ isLimitReached
    /\ location.hash = ReferenceToken

(***************************************************************************)
(* Properties of the editor's handlers, checked under Spec                 *)
(***************************************************************************)
\* C11: debounce.  At most one debounce timer is pending, the one
\* debounceRef names; an edit discards the timer pending before it and
\* leaves only its own, which carries the content just typed; and the save
\* a timer requests when it fires is that of the timer's text, the text of
\* the last edit, so no edit that another followed within the window is
\* encoded by the timer.
Debounce ==
    [][/\ Len(timers') <= 1
       /\ timers' # <<>> => timers'[1].id = debounceRef'
       /\ (timers' # <<>> /\ timers' # timers) =>
             timers' = <<[id |-> debounceRef', text |-> content', mode |-> previewMode]>>
       /\ (Len(timers') < Len(timers) /\ debounceRef' # 0) =>
             /\ timers[1].id = debounceRef
             /\ saves' = IF isInitializedRef
                         THEN Append(saves, [text |-> timers[1].text, mode |-> timers[1].mode])
                         ELSE saves]_vars

\* the timer of the last edit has fired and its save, of the text "a" still
\* in the editor, waits for encodeContent
DebounceWitness ==
    /\ timers = <<>>
    /\ debounceRef # 0
    /\ content = JsStr(<<97>>)
    /\ saves = <<[text |-> JsStr(<<97>>), mode |-> JsStr(ModeEdit)]>>
    /\ ~lastSave.done

\* C12: saveToUrl never changes the document in memory.  When an
\* invocation completes, whatever it did (URL written, write suppressed,
\* empty token after a failed encode, exception caught), content and
\* previewMode are what they were.
SaveKeepsDocument ==
    [][Len(saves') < Len(saves) => (content' = content /\ previewMode' = previewMode)]_vars

\* a save of the content 5, loaded from a record, ended in the catch block
\* and the content is still 5
SaveKeepsDocumentWitness ==
    /\ lastSave.done
    /\ lastSave.caught
    /\ content = JsNum(<<53>>, TRUE)

\* C13: carrier.  A saveToUrl invocation that writes the URL leaves origin
\* and path as they are and makes the fragment exactly the token
\* encodeContent returned, unaltered, which for the empty token is no
\* fragment at all; and what loadFromUrl hands to decodeContent is exactly
\* the page's fragment, without the '#'.
Carrier ==
    [][/\ Len(saves') < Len(saves) =>
            \E i \in 1..Len(saves), fault \in EditorEncodeFaults :
                LET encoded == EncodeContent(saves[i].text, saves[i].mode,
                                             isTerminal, fault).value
                IN  /\ saves' = RemoveAt(saves, i)
                    /\ lastSave'.tokenLength = Len(encoded)
                    /\ lastSave'.pushed =>
                          location' = [origin |-> location.origin,
                                       path |-> location.path, hash |-> encoded]
       /\ (loadPc.at = "mount" /\ loadPc'.at = "decoding") =>
             (loadPc'.hash = location.hash /\ loadPc'.hash # <<>>)
       /\ (loadPc.at = "mount" /\ loadPc'.at = "done") => location.hash = <<>>]_vars

\* the page was opened without a fragment and now carries, as its fragment,
\* the token of the document ("a", live)
CarrierWitness ==
    /\ lastSave.done
    /\ lastSave.pushed
    /\ location.path = 11
    /\ location.hash = EncodeContent(JsStr(<<97>>), JsStr(ModeLive), FALSE, "none").value
    /\ content = JsStr(<<97>>)
    /\ previewMode = JsStr(ModeLive)

(***************************************************************************)
(* Properties of the codec under concurrency, checked under ConcurrentSpec *)
(***************************************************************************)
\* C14: the codec holds no shared state.  However the calls in flight
\* interleave, the result of each is what encodeContent or decodeContent
\* gives for that call's own arguments, and the tokens of two calls with the
\* same document decode to the same document.
StatelessCodec ==
    /\ \A i \in 1..Len(calls) :
          calls[i].settled =>
             calls[i].promise =
               IF calls[i].op = "encode"
               THEN EncodeContent(calls[i].text, calls[i].mode, isTerminal, calls[i].fault)
               ELSE DecodeContent(calls[i].token, isTerminal, calls[i].fault)
    /\ \A i, j \in 1..Len(calls) :
          (/\ calls[i].settled /\ calls[j].settled
           /\ calls[i].op = "encode" /\ calls[j].op = "encode"
           /\ calls[i].text = calls[j].text /\ calls[i].mode = calls[j].mode
           /\ calls[i].fault = "none" /\ calls[j].fault = "none")
            => DecodeContent(calls[i].promise.value, isTerminal, "none")
                 = DecodeContent(calls[j].promise.value, isTerminal, "none")

\* a decodeContent call is suspended at its await while an encodeContent
\* call started after it has already returned its token
StatelessCodecWitness ==
    /\ Len(calls) = 2
    /\ calls[1].op = "decode" /\ ~calls[1].settled
    /\ calls[2].op = "encode" /\ calls[2].settled
    /\ calls[2].fault = "none"
    /\ calls[2].promise.value # <<>>

(***************************************************************************)
(* Properties of cycleMode and of a failed encode, checked under Spec      *)
(***************************************************************************)
\* C15: cycleMode advances the mode in the cycle edit, live, view, edit, so
\* that two more invocations after any one restore the mode that was
\* current before it, and each invocation requests at once the save of the
\* current content with the new mode.
CycleModeRestores ==
    [][(previewMode' # previewMode /\ loadPc' = loadPc) =>
          /\ NextMode(NextMode(previewMode')) = previewMode
          /\ isInitializedRef =>
                saves' = Append(saves, [text |-> content, mode |-> previewMode'])]_vars

\* C16: a failed encode never destroys the published link.  When the URL
\* carries a token the editor has published and a saveToUrl invocation of a
\* non-empty content completes with the empty token, the fragment of the
\* URL is what it was.
FailedEncodeKeepsLink ==
    [][\A i \in 1..Len(saves) :
          (/\ lastSave.pushed
           /\ location.hash # <<>>
           /\ Len(saves') < Len(saves)
           /\ saves' = RemoveAt(saves, i)
           /\ Truthy(saves[i].text)
           /\ lastSave'.tokenLength = 0)
            => location'.hash = location.hash]_vars

====
